---- MODULE Spec2Model ----
(***************************************************************************)
(* Conversational refinement of a knowledge-graph document.                *)
(*                                                                         *)
(* The model follows JSONConversationHandler (src/test.py): the session    *)
(* state (conversation_history, current_json, original_text), the          *)
(* operations start_conversation, process_user_message, undo_last_change   *)
(* and reset_conversation, and the two pure helpers _parse_llm_response    *)
(* and _validate_json_structure.                                           *)
(*                                                                         *)
(* Text is a sequence of tokens (strings).  A token is a marker            *)
(* ("UNDERSTANDING:", "UPDATED_JSON:", "CHANGES:", the two fences), a     *)
(* JSON punctuation character ("{", "}", "[", "]", ":", ",", the quote),   *)
(* a run of whitespace (" "), or a word.  Character offsets of the code    *)
(* become token offsets; str.find's -1 becomes 0 (sequences start at 1).   *)
(*                                                                         *)
(* A JSON value (what json.loads returns) is a record with the fields      *)
(*   t : "null", "str", "list" or "dict"                                   *)
(*   s : the content of a string, as the tokens between its quotes         *)
(*   k : the keys of a dict, in insertion order (each a string content)    *)
(*   l : the items of a list, or the values of a dict (l[i] is for k[i])   *)
(***************************************************************************)
EXTENDS Naturals, Sequences, FiniteSets, TLC

-----------------------------------------------------------------------------
(* JSON values *)

JNull == [t |-> "null", s |-> <<>>, k |-> <<>>, l |-> <<>>]

JStr(w) == [t |-> "str", s |-> w, k |-> <<>>, l |-> <<>>]

JList(items) == [t |-> "list", s |-> <<>>, k |-> <<>>, l |-> items]

JDict(keys, vals) == [t |-> "dict", s |-> <<>>, k |-> keys, l |-> vals]

\* isinstance(v, dict), isinstance(v, list)
IsDict(v) == v.t = "dict"

IsList(v) == v.t = "list"

\* key in d
HasKey(d, key) == \E i \in 1..Len(d.k) : d.k[i] = key

\* d[key], for a key that is present
Get(d, key) == d.l[CHOOSE i \in 1..Len(d.k) : d.k[i] = key]

\* hash(v) succeeds: lists and dicts are unhashable (TypeError)
Hashable(v) == v.t \in {"null", "str"}

\* d[key] = val on a dict under construction: a repeated key keeps its place
\* and takes the last value
DictPut(d, key, val) ==
    IF HasKey(d, key)
    THEN LET i == CHOOSE j \in 1..Len(d.k) : d.k[j] = key
         IN  JDict(d.k, [d.l EXCEPT ![i] = val])
    ELSE JDict(Append(d.k, key), Append(d.l, val))

\* the items of a list (the keys of a dict: Range(d.k))
Range(f) == {f[i] : i \in DOMAIN f}

-----------------------------------------------------------------------------
(* Text *)

Quote == "\""

Ws == " "

\* the index of the first token at or after i that is not whitespace
\* (Len(ts) + 1 when there is none)
SkipWs(ts, i) ==
    IF \E j \in i..Len(ts) : ts[j] # Ws
    THEN CHOOSE j \in i..Len(ts) :
            ts[j] # Ws /\ \A m \in i..(j - 1) : ts[m] = Ws
    ELSE IF i > Len(ts) THEN i ELSE Len(ts) + 1

\* the index of the last token at or before i that is not whitespace (0 when none)
SkipWsBack(ts, i) ==
    IF \E j \in 1..i : ts[j] # Ws
    THEN CHOOSE j \in 1..i :
            ts[j] # Ws /\ \A m \in (j + 1)..i : ts[m] = Ws
    ELSE 0

\* str.strip()
Strip(ts) == SubSeq(ts, SkipWs(ts, 1), SkipWsBack(ts, Len(ts)))

\* text[a:b] with 0 <= a, in token offsets: the tokens a+1 .. b
Slice(ts, a, b) == SubSeq(ts, a + 1, b)

\* the index of the first token at or after from that belongs to toks, 0 if none
FindFrom(ts, toks, from) ==
    IF \E i \in from..Len(ts) : ts[i] \in toks
    THEN CHOOSE i \in from..Len(ts) :
            ts[i] \in toks /\ \A j \in from..(i - 1) : ts[j] \notin toks
    ELSE 0

\* the index of the last token at or before from that belongs to toks, 0 if none
FindLast(ts, toks, from) ==
    IF \E i \in 1..from : ts[i] \in toks
    THEN CHOOSE i \in 1..from :
            ts[i] \in toks /\ \A j \in (i + 1)..from : ts[j] \notin toks
    ELSE 0

-----------------------------------------------------------------------------
(* json.loads: a recursive-descent parser over the tokens.  A result is    *)
(* [ok, val, pos]: whether a value was read, the value, and the index of   *)
(* the first token after it.  ok = FALSE is json.JSONDecodeError.          *)

Fail == [ok |-> FALSE, val |-> JNull, pos |-> 0]

Ok(v, p) == [ok |-> TRUE, val |-> v, pos |-> p]

\* a string whose opening quote is at i: its content runs to the next quote
ParseString(ts, i) ==
    LET j == FindFrom(ts, {Quote}, i + 1)
    IN  IF j = 0 THEN Fail ELSE Ok(JStr(SubSeq(ts, i + 1, j - 1)), j + 1)

RECURSIVE ParseValue(_, _)
RECURSIVE ParseElements(_, _, _)
RECURSIVE ParseMembers(_, _, _)

\* the items of a list after "[" or ",": i is at the start of an item
ParseElements(ts, i, acc) ==
    LET r == ParseValue(ts, i)
    IN  IF ~r.ok THEN Fail
        ELSE LET j == SkipWs(ts, r.pos)
                 items == Append(acc, r.val)
             IN  IF j > Len(ts) THEN Fail
                 ELSE IF ts[j] = "]" THEN Ok(JList(items), j + 1)
                 ELSE IF ts[j] = "," THEN ParseElements(ts, SkipWs(ts, j + 1), items)
                 ELSE Fail

\* the members of a dict after "{" or ",": i is at the quote opening a key
ParseMembers(ts, i, acc) ==
    IF i > Len(ts) \/ ts[i] # Quote THEN Fail
    ELSE
    LET key == ParseString(ts, i)
    IN  IF ~key.ok THEN Fail
        ELSE LET c == SkipWs(ts, key.pos)
             IN  IF c > Len(ts) \/ ts[c] # ":" THEN Fail
                 ELSE LET r == ParseValue(ts, SkipWs(ts, c + 1))
                      IN  IF ~r.ok THEN Fail
                          ELSE LET j == SkipWs(ts, r.pos)
                                   d == DictPut(acc, key.val.s, r.val)
                               IN  IF j > Len(ts) THEN Fail
                                   ELSE IF ts[j] = "}" THEN Ok(d, j + 1)
                                   ELSE IF ts[j] = ","
                                        THEN ParseMembers(ts, SkipWs(ts, j + 1), d)
                                   ELSE Fail

\* one value starting at i (i is not at whitespace)
ParseValue(ts, i) ==
    IF i > Len(ts) THEN Fail
    ELSE IF ts[i] = "null" THEN Ok(JNull, i + 1)
    ELSE IF ts[i] = Quote THEN ParseString(ts, i)
    ELSE IF ts[i] = "["
         THEN LET j == SkipWs(ts, i + 1)
              IN  IF j <= Len(ts) /\ ts[j] = "]" THEN Ok(JList(<<>>), j + 1)
                  ELSE ParseElements(ts, j, <<>>)
    ELSE IF ts[i] = "{"
         THEN LET j == SkipWs(ts, i + 1)
              IN  IF j <= Len(ts) /\ ts[j] = "}" THEN Ok(JDict(<<>>, <<>>), j + 1)
                  ELSE ParseMembers(ts, j, JDict(<<>>, <<>>))
    ELSE Fail

\* json.loads(ts): one value, with whitespace around it and nothing else
Loads(ts) ==
    LET r == ParseValue(ts, SkipWs(ts, 1))
    IN  IF r.ok /\ SkipWs(ts, r.pos) = Len(ts) + 1 THEN r ELSE Fail

-----------------------------------------------------------------------------
(* json.dumps(v, indent=2): every item on a line of its own (a whitespace  *)
(* run after "{", "[" and ",", and before the closing bracket), ": "       *)
(* between a key and its value, and "{}" / "[]" for the empty containers.  *)

RECURSIVE Dumps(_)
RECURSIVE DumpItems(_, _)

DumpItems(v, i) ==
    LET item == IF IsDict(v)
                THEN <<Quote>> \o v.k[i] \o <<Quote, ":", Ws>> \o Dumps(v.l[i])
                ELSE Dumps(v.l[i])
    IN  IF i = Len(v.l) THEN item \o <<Ws>>
        ELSE item \o <<",", Ws>> \o DumpItems(v, i + 1)

Dumps(v) ==
    IF v.t = "null" THEN <<"null">>
    ELSE IF v.t = "str" THEN <<Quote>> \o v.s \o <<Quote>>
    ELSE IF v.t = "list"
         THEN IF v.l = <<>> THEN <<"[", "]">>
              ELSE <<"[", Ws>> \o DumpItems(v, 1) \o <<"]">>
    ELSE IF v.l = <<>> THEN <<"{", "}">>
         ELSE <<"{", Ws>> \o DumpItems(v, 1) \o <<"}">>

-----------------------------------------------------------------------------
(* Keys and string values of the canonical document schema *)

\* the content of a one-word string
K(w) == <<w>>

\* the JSON string "w"
S(w) == JStr(K(w))

NodeKeys == <<K("id"), K("name"), K("type")>>

RelKeys == <<K("source"), K("target"), K("type")>>

\* the keys every node must carry (line 264) and every relationship (line 275)
RequiredNodeKeys == {K("id"), K("name"), K("type")}

RequiredRelKeys == {K("source"), K("target"), K("type")}

-----------------------------------------------------------------------------
(* _validate_json_structure *)

\* WellShaped asking a node for "id" only, not for "name" and "type"
WellShapedNodeIdOnly(json_data) ==
    /\ IsDict(json_data)
    /\ HasKey(json_data, K("nodes"))
    /\ HasKey(json_data, K("relationships"))
    /\ LET nodes == Get(json_data, K("nodes"))
           relationships == Get(json_data, K("relationships"))
       IN  /\ IsList(nodes)
           /\ \A i \in 1..Len(nodes.l) :
                /\ IsDict(nodes.l[i])
                /\ HasKey(nodes.l[i], K("id"))
           /\ IsList(relationships)
           /\ \A i \in 1..Len(relationships.l) :
                /\ IsDict(relationships.l[i])
                /\ \A key \in RequiredRelKeys : HasKey(relationships.l[i], key)

\* lines 250-276: the shape of the document, its nodes and its relationships
WellShaped(json_data) ==
    /\ IsDict(json_data)
    /\ HasKey(json_data, K("nodes"))
    /\ HasKey(json_data, K("relationships"))
    /\ LET nodes == Get(json_data, K("nodes"))
           relationships == Get(json_data, K("relationships"))
       IN  /\ IsList(nodes)
           /\ \A i \in 1..Len(nodes.l) :
                /\ IsDict(nodes.l[i])
                /\ \A key \in RequiredNodeKeys : HasKey(nodes.l[i], key)
           /\ IsList(relationships)
           /\ \A i \in 1..Len(relationships.l) :
                /\ IsDict(relationships.l[i])
                /\ \A key \in RequiredRelKeys : HasKey(relationships.l[i], key)

\* ReferencesResolve with the targets left unchecked
ReferencesResolveSourceOnly(json_data) ==
    LET nodes == Get(json_data, K("nodes")).l
        relationships == Get(json_data, K("relationships")).l
        node_ids == {Get(nodes[i], K("id")) : i \in 1..Len(nodes)}
    IN  \A i \in 1..Len(relationships) :
            Get(relationships[i], K("source")) \in node_ids

\* lines 278-282 under the try of line 248: the set comprehension hashes every
\* node id and the membership tests hash every endpoint; an unhashable value
\* raises TypeError, which line 286 turns into False
ReferencesResolve(json_data) ==
    LET nodes == Get(json_data, K("nodes")).l
        relationships == Get(json_data, K("relationships")).l
    IN  /\ \A i \in 1..Len(nodes) : Hashable(Get(nodes[i], K("id")))
        /\ LET node_ids == {Get(nodes[i], K("id")) : i \in 1..Len(nodes)}
           IN  \A i \in 1..Len(relationships) :
                 /\ Hashable(Get(relationships[i], K("source")))
                 /\ Get(relationships[i], K("source")) \in node_ids
                 /\ Hashable(Get(relationships[i], K("target")))
                 /\ Get(relationships[i], K("target")) \in node_ids

\* _validate_json_structure without the reference check of lines 278-282
ValidateShapeOnly(json_data) == WellShaped(json_data)

_validate_json_structure(json_data) ==
    IF ~WellShaped(json_data) THEN FALSE
    ELSE IF ~ReferencesResolve(json_data) THEN FALSE
    ELSE TRUE

-----------------------------------------------------------------------------
(* _parse_llm_response *)

UNDERSTANDING == "UNDERSTANDING:"

UPDATED_JSON == "UPDATED_JSON:"

CHANGES == "CHANGES:"

\* the fence delimiters of lines 215-216 (three backquotes, written here with
\* apostrophes)
FenceOpen == "'''json"

FenceClose == "'''"

\* what the search for the closing fence stops at: the opener starts with the closer
Fences == {FenceOpen, FenceClose}

\* lines 205-212
ExtractUnderstanding(response) ==
    LET u == FindFrom(response, {UNDERSTANDING}, 1)
        understanding_end == FindFrom(response, {UPDATED_JSON}, 1)
    IN  IF u = 0 THEN <<>>
        ELSE IF understanding_end # 0
             THEN Strip(Slice(response, u, understanding_end - 1))
             ELSE Strip(Slice(response, u, Len(response)))

\* lines 232-235
ExtractChanges(response) ==
    LET c == FindFrom(response, {CHANGES}, 1)
    IN  IF c = 0 THEN <<>> ELSE Strip(Slice(response, c, Len(response)))

\* line 224: re.search(r'\{.*\}', response, re.DOTALL), greedy: from the first
\* "{" to the last "}" of the text; <<0, 0>> when there is no match
BraceSpan(response) ==
    LET a == FindFrom(response, {"{"}, 1)
        b == FindLast(response, {"}"}, Len(response))
    IN  IF a # 0 /\ b > a THEN <<a, b>> ELSE <<0, 0>>

\* lines 214-226: [exc, found, json].  The text handed to json.loads is the
\* stripped content of the fenced block when there is one, else the brace span
\* when there is one; exc = "JSONDecodeError" when json.loads raised, and
\* found = FALSE when there was no text to load or it did not load.
\* json_end is read only when json_start was found.
ExtractJson(response) ==
    LET json_start == FindFrom(response, {FenceOpen}, 1)
        json_end == FindFrom(response, Fences, json_start + 1)
        fenced == json_start # 0 /\ json_end # 0
        m == BraceSpan(response)
        json_str == IF fenced
                    THEN Strip(Slice(response, json_start, json_end - 1))
                    ELSE SubSeq(response, m[1], m[2])
    IN  IF fenced \/ m # <<0, 0>>
        THEN LET r == Loads(json_str)
             IN  IF r.ok THEN [exc |-> "none", found |-> TRUE, json |-> r.val]
                 ELSE [exc |-> "JSONDecodeError", found |-> FALSE, json |-> JNull]
        ELSE [exc |-> "none", found |-> FALSE, json |-> JNull]

\* OnJSONDecodeError giving the empty structure instead of current_json
OnJSONDecodeErrorEmpty(response, current_json) ==
    [raised |-> FALSE, explanation |-> response,
     json |-> JDict(<<K("nodes"), K("relationships")>>,
                    <<JList(<<>>), JList(<<>>)>>),
     changes |-> <<"Failed to parse JSON">>, same |-> FALSE]

\* lines 239-241: the handler of json.JSONDecodeError
OnJSONDecodeError(response, current_json) ==
    [raised |-> FALSE, explanation |-> response, json |-> current_json,
     changes |-> <<"Failed to parse JSON">>, same |-> TRUE]

\* lines 201-244: the triple returned, and whether an exception left the call.
\* Line 229: with no fenced block and no brace span the document is current_json.
_parse_llm_response(response, current_json) ==
    LET e == ExtractJson(response)
    IN  IF e.exc = "JSONDecodeError"
        THEN OnJSONDecodeError(response, current_json)
        ELSE [raised |-> FALSE,
              explanation |-> ExtractUnderstanding(response),
              json |-> IF e.found THEN e.json ELSE current_json,
              changes |-> ExtractChanges(response),
              same |-> ~e.found]

-----------------------------------------------------------------------------
(* Inputs: documents, generated texts, user messages *)

Node(id, name, type) == JDict(NodeKeys, <<id, S(name), S(type)>>)

Rel(source, target, type) == JDict(RelKeys, <<source, target, S(type)>>)

Document(nodes, relationships) ==
    JDict(<<K("nodes"), K("relationships")>>,
          <<JList(nodes), JList(relationships)>>)

Alice == Node(S("person_alice"), "Alice", "Person")

TechX == Node(S("technology_x"), "X", "Technology")

\* one node, no relationship
DocAlice == Document(<<Alice>>, <<>>)

\* two nodes and a relationship between them
DocUses ==
    Document(<<Alice, TechX>>,
             <<Rel(S("person_alice"), S("technology_x"), "uses")>>)

\* a relationship whose target is the id of no node
DocDangling ==
    Document(<<Alice>>, <<Rel(S("person_alice"), S("technology_x"), "uses")>>)

\* two nodes with the same id
DocDuplicateId == Document(<<Alice, Node(S("person_alice"), "Al", "Person")>>, <<>>)

\* a node whose id is the empty string
DocEmptyId == Document(<<Node(JStr(<<>>), "Nobody", "Person")>>, <<>>)

\* a node without "name"
DocNodeNoName ==
    Document(<<JDict(<<K("id"), K("type")>>, <<S("person_alice"), S("Person")>>)>>,
             <<>>)

\* no "relationships"
DocNoRelationships == JDict(<<K("nodes")>>, <<JList(<<Alice>>)>>)

\* a node id that cannot be hashed
DocListId == Document(<<Node(JList(<<>>), "Alice", "Person")>>, <<>>)

\* the response laid out as the prompt asks (lines 189-197)
Formatted(understanding, body, changes) ==
    <<UNDERSTANDING, Ws>> \o understanding \o <<Ws, UPDATED_JSON, Ws, FenceOpen, Ws>>
    \o body \o <<Ws, FenceClose, Ws, CHANGES, Ws>> \o changes

\* the candidate documents the generated texts carry
CandidateDocs ==
    {DocAlice, DocUses, DocDangling, DocDuplicateId, DocEmptyId,
     DocNodeNoName, DocNoRelationships, DocListId, JList(<<>>)}

\* a fenced block that is not JSON
TextBadFence == Formatted(<<"add X">>, <<"{", "oops", "}">>, <<"added X">>)

\* markers, but no document text at all
TextNoDocument == <<UNDERSTANDING, Ws, "add X", Ws, CHANGES, Ws, "nothing">>

\* no marker and no fence: a document inside free text
TextFreeDocument == <<"Here", Ws>> \o Dumps(DocUses) \o <<Ws, "done">>

\* the texts generate returns in a session
GeneratedTexts ==
    {Formatted(<<"add X">>, Dumps(d), <<"added X">>) :
        d \in {DocUses, DocDangling, DocDuplicateId, DocEmptyId}}
    \cup {TextBadFence, TextNoDocument, TextFreeDocument}

\* the texts _parse_llm_response is given on its own
ParseTexts ==
    GeneratedTexts
    \cup {Formatted(<<"add X">>, Dumps(d), <<"added X">>) : d \in CandidateDocs}
    \cup
    {   <<"Here", Ws>> \o Dumps(DocDangling),
        \* a fence that is never closed
        <<FenceOpen, Ws>> \o Dumps(DocUses),
        \* a fenced block that is not JSON, and a document after it
        <<FenceOpen, Ws, "{", "oops", Ws, FenceClose, Ws>> \o Dumps(DocUses),
        \* a fenced block with no brace in it, and a document after it
        <<FenceOpen, Ws, "oops", Ws, FenceClose, Ws>> \o Dumps(DocUses),
        \* two documents in free text
        Dumps(DocUses) \o <<Ws, "or", Ws>> \o Dumps(DocAlice),
        \* malformed braces
        <<"{", "oops">>,
        <<"}", "oops", "{">>,
        <<"{", "oops", "}">>,
        \* no marker, no brace
        <<"Sorry?">>,
        \* the empty string
        <<>>
    }

\* what generate can do: return a text, or raise
GenerateOutcomes ==
    {[raises |-> FALSE, text |-> t, error |-> <<>>] : t \in GeneratedTexts}
    \cup {[raises |-> TRUE, text |-> <<>>, error |-> <<"Connection error.">>]}

UserMessages == {<<"add a Technology node called X">>}

\* the documents and the source text a conversation is started with
InitialDocs == {DocAlice, DocDangling}

SourceTexts == {<<"Alice uses X.">>}

\* the longest history a submit may start from
MaxTurns == 4

-----
(* Session state *)

VARIABLES
    conversation_history,   \* the Turns, oldest first
    current_json,           \* the live document
    original_text,          \* the source text the document was derived from
    op,                     \* the operation that ran last
    trace,                  \* what that operation called and saw
    ret,                    \* what it returned to its caller
    call,                   \* a call of a helper on its own (SpecValidate, SpecParse)
    shared,                 \* the keys of current_json whose value is the very
                            \* object the caller of start_conversation holds
                            \* under that key of the dict it passed in
    conversation_messages   \* the messages the chat page displays
                            \* (src/testy01.py, st.session_state)

vars == <<conversation_history, current_json, original_text,
          op, trace, ret, call, shared, conversation_messages>>

\* A Turn is a dict with "role", "content" and "timestamp", plus "changes" (an
\* accepted update) or "error" (a rejected one); keys holds the optional keys
\* it has.  The timestamp is never read by the operations modelled here.
UserTurn(content) ==
    [role |-> "user", content |-> content, keys |-> {},
     changes |-> <<>>, error |-> <<>>]

\* lines 122-127
AcceptedTurn(explanation, changes_summary) ==
    [role |-> "assistant", content |-> explanation, keys |-> {"changes"},
     changes |-> changes_summary, error |-> <<>>]

\* lines 135-140
RejectedTurn(error_response) ==
    [role |-> "assistant", content |-> error_response, keys |-> {"error"},
     changes |-> <<>>, error |-> <<"Invalid JSON generated">>]

\* line 20: the document of a handler that was never started
EmptyDocument ==
    JDict(<<K("nodes"), K("relationships")>>, <<JList(<<>>), JList(<<>>)>>)

NoPrompt ==
    [context |-> <<>>, current_json_str |-> <<>>, original_text |-> <<>>,
     user_message |-> <<>>]

\* calls: the collaborators called, in order; prompt: what generate was given;
\* generate: whether it "returned" or "raised"; response: the text it returned;
\* updated_json: the candidate _parse_llm_response gave back (line 113)
NoTrace ==
    [calls |-> <<>>, prompt |-> NoPrompt, generate |-> "", response |-> <<>>,
     updated_json |-> JNull]

NoRet == [text |-> <<>>, json |-> JNull, flag |-> FALSE, raised |-> FALSE]

\* what _parse_llm_response returns: the triple, whether it raised instead, and
\* whether the document of the triple is the object self.current_json itself
NoOut ==
    [raised |-> FALSE, explanation |-> <<>>, json |-> JNull, changes |-> <<>>,
     same |-> FALSE]

\* a helper called on its own: fn with the arguments text and json; once done,
\* valid is what _validate_json_structure returned and out what
\* _parse_llm_response returned
NoCall == [fn |-> "none", done |-> FALSE, text |-> <<>>, json |-> JNull,
           valid |-> FALSE, out |-> NoOut]

-----------------------------------------------------------------------------
(* _build_conversation_prompt *)

WindowSize == 4

SourcePrefixLen == 500

Min(a, b) == IF a < b THEN a ELSE b

\* RecentHistory with no window: the whole history
RecentHistoryAll(history) == history

\* line 155
RecentHistory(history) ==
    IF Len(history) > WindowSize
    THEN SubSeq(history, Len(history) - WindowSize + 1, Len(history))
    ELSE history

\* lines 157-164: one role-labelled line per recent Turn, oldest first
ContextMessages(history) ==
    LET recent_history == RecentHistory(history)
    IN  [i \in 1..Len(recent_history) |->
            IF recent_history[i].role = "user"
            THEN <<"User: ">> \o recent_history[i].content
            ELSE <<"Assistant: ">> \o recent_history[i].content]

\* _build_conversation_prompt reading the history as it was before the user
\* Turn of the call was appended
BuildPromptBeforeAppend(history, json, text, user_message) ==
    LET before == SubSeq(history, 1, Len(history) - 1)
    IN  [context |-> IF ContextMessages(before) # <<>>
                     THEN ContextMessages(before)
                     ELSE <<<<"This is the start of our conversation.">>>>,
         current_json_str |-> Dumps(json),
         original_text |-> SubSeq(text, 1, Min(SourcePrefixLen, Len(text))),
         user_message |-> user_message]

\* lines 151-199: the parts of the prompt that vary (the system prompt and the
\* format instructions are fixed text)
_build_conversation_prompt(history, json, text, user_message) ==
    [context |-> IF ContextMessages(history) # <<>>
                 THEN ContextMessages(history)
                 ELSE <<<<"This is the start of our conversation.">>>>,
     current_json_str |-> Dumps(json),
     original_text |-> SubSeq(text, 1, Min(SourcePrefixLen, Len(text))),
     user_message |-> user_message]

-----------------------------------------------------------------------------
(* process_user_message *)

\* ExceptBranch raising again after logging
ExceptBranchReraise(history, calls, conversation_prompt, generate, e) ==
    /\ conversation_history' = history
    /\ current_json' = current_json
    /\ shared' = shared
    /\ trace' = [calls |-> calls, prompt |-> conversation_prompt,
                 generate |-> generate, response |-> <<>>,
                 updated_json |-> JNull]
    /\ ret' = [text |-> e, json |-> JNull, flag |-> FALSE, raised |-> TRUE]

\* lines 146-149: an exception raised in the try block ends the call here
ExceptBranch(history, calls, conversation_prompt, generate, e) ==
    /\ conversation_history' = history
    /\ current_json' = current_json
    /\ shared' = shared
    /\ trace' = [calls |-> calls, prompt |-> conversation_prompt,
                 generate |-> generate, response |-> <<>>,
                 updated_json |-> JNull]
    /\ ret' = [text |-> <<"I encountered an error processing your request: ">>
                        \o e \o <<". Could you please rephrase your request?">>,
               json |-> current_json, flag |-> FALSE, raised |-> FALSE]

\* AcceptBranch without the assignment of line 119
AcceptBranchNoInstall(history, calls, conversation_prompt, response, parsed) ==
    /\ current_json' = current_json
    /\ shared' = shared
    /\ conversation_history' =
          Append(history, AcceptedTurn(parsed.explanation, parsed.changes))
    /\ trace' = [calls |-> calls, prompt |-> conversation_prompt,
                 generate |-> "returned", response |-> response,
                 updated_json |-> parsed.json]
    /\ ret' = [text |-> parsed.explanation \o <<"**Changes made**: ">>
                        \o parsed.changes,
               json |-> current_json, flag |-> TRUE, raised |-> FALSE]

\* lines 118-129 and 144.  Line 119 binds self.current_json to the object the
\* parser returned: a new one, or self.current_json itself (parsed.same)
AcceptBranch(history, calls, conversation_prompt, response, parsed) ==
    /\ current_json' = parsed.json
    /\ shared' = IF parsed.same THEN shared ELSE {}
    /\ conversation_history' =
          Append(history, AcceptedTurn(parsed.explanation, parsed.changes))
    /\ trace' = [calls |-> calls, prompt |-> conversation_prompt,
                 generate |-> "returned", response |-> response,
                 updated_json |-> parsed.json]
    /\ ret' = [text |-> parsed.explanation \o <<"**Changes made**: ">>
                        \o parsed.changes,
               json |-> parsed.json, flag |-> TRUE, raised |-> FALSE]

\* the clarification request of line 133
ErrorResponse(explanation) ==
    <<"I understand you want to: ">> \o explanation
    \o <<"However, I had trouble creating valid JSON from your request. Could you please clarify what specific changes you'd like me to make?">>

\* RejectBranch installing the candidate all the same
RejectBranchInstalls(history, calls, conversation_prompt, response, parsed) ==
    /\ current_json' = parsed.json
    /\ shared' = IF parsed.same THEN shared ELSE {}
    /\ conversation_history' =
          Append(history, RejectedTurn(<<"I understand you want to: ">>
                                       \o parsed.explanation))
    /\ trace' = [calls |-> calls, prompt |-> conversation_prompt,
                 generate |-> "returned", response |-> response,
                 updated_json |-> parsed.json]
    /\ ret' = [text |-> <<"I understand you want to: ">> \o parsed.explanation,
               json |-> parsed.json, flag |-> FALSE, raised |-> FALSE]

\* RejectBranch raising instead of asking for a clarification
RejectBranchRaises(history, calls, conversation_prompt, response, parsed) ==
    /\ current_json' = current_json
    /\ shared' = shared
    /\ conversation_history' = history
    /\ trace' = [calls |-> calls, prompt |-> conversation_prompt,
                 generate |-> "returned", response |-> response,
                 updated_json |-> parsed.json]
    /\ ret' = [text |-> <<"Invalid JSON generated">>, json |-> JNull,
               flag |-> FALSE, raised |-> TRUE]

\* RejectBranch appending its Turn to the history without the user Turn
RejectBranchDropsUserTurn(history, calls, conversation_prompt, response, parsed) ==
    /\ current_json' = current_json
    /\ shared' = shared
    /\ conversation_history' =
          Append(conversation_history,
                 RejectedTurn(ErrorResponse(parsed.explanation)))
    /\ trace' = [calls |-> calls, prompt |-> conversation_prompt,
                 generate |-> "returned", response |-> response,
                 updated_json |-> parsed.json]
    /\ ret' = [text |-> ErrorResponse(parsed.explanation),
               json |-> current_json, flag |-> FALSE, raised |-> FALSE]

\* lines 131-144
RejectBranch(history, calls, conversation_prompt, response, parsed) ==
    /\ current_json' = current_json
    /\ shared' = shared
    /\ conversation_history' =
          Append(history, RejectedTurn(ErrorResponse(parsed.explanation)))
    /\ trace' = [calls |-> calls, prompt |-> conversation_prompt,
                 generate |-> "returned", response |-> response,
                 updated_json |-> parsed.json]
    /\ ret' = [text |-> ErrorResponse(parsed.explanation),
               json |-> current_json, flag |-> FALSE, raised |-> FALSE]

\* lines 91-149.  gen is what self.llm.generate does with the prompt: it
\* returns gen.text, or raises an exception whose description is gen.error.
process_user_message(user_message, gen) ==
    LET history == Append(conversation_history, UserTurn(user_message))
        conversation_prompt ==
            _build_conversation_prompt(history, current_json, original_text,
                                       user_message)
    IN  /\ op' = "process_user_message"
        /\ UNCHANGED <<original_text, call>>
        /\ IF gen.raises
           THEN ExceptBranch(history, <<"generate">>, conversation_prompt,
                             "raised", gen.error)
           ELSE LET parsed == _parse_llm_response(gen.text, current_json)
                IN  IF parsed.raised
                    THEN ExceptBranch(history,
                                      <<"generate", "_parse_llm_response">>,
                                      conversation_prompt, "returned",
                                      parsed.explanation)
                    ELSE LET is_valid == _validate_json_structure(parsed.json)
                             calls == <<"generate", "_parse_llm_response",
                                        "_validate_json_structure">>
                         IN  IF is_valid
                             THEN AcceptBranch(history, calls, conversation_prompt,
                                               gen.text, parsed)
                             ELSE RejectBranch(history, calls, conversation_prompt,
                                               gen.text, parsed)

-----------------------------------------------------------------------------
(* start_conversation, reset_conversation, undo_last_change *)

\* d.get(key, []) followed by len(): the length of the list under key, 0 when
\* the key is absent
CountOf(d, key) == IF HasKey(d, key) THEN Len(Get(d, key).l) ELSE 0

\* lines 68-89.  dict.copy() of line 70 makes a new dict whose values are the
\* objects initial_json holds: every key of the copy is shared with the caller
start_conversation(initial_json, text) ==
    /\ current_json' = initial_json
    /\ shared' = Range(initial_json.k)
    /\ original_text' = text
    /\ conversation_history' = <<>>
    /\ op' = "start_conversation"
    /\ trace' = NoTrace
    /\ ret' = [text |-> <<"I'm ready to help you refine your knowledge graph!",
                          "Nodes: ", ToString(CountOf(initial_json, K("nodes"))),
                          "Relationships: ",
                          ToString(CountOf(initial_json, K("relationships")))>>,
               json |-> JNull, flag |-> FALSE, raised |-> FALSE]
    /\ UNCHANGED call

\* lines 327-330
reset_conversation ==
    /\ conversation_history' = <<>>
    /\ op' = "reset_conversation"
    /\ trace' = NoTrace
    /\ ret' = NoRet
    /\ UNCHANGED <<current_json, original_text, call, shared>>

\* line 338
MadeChanges(msg) == msg.role = "assistant" /\ "changes" \in msg.keys

\* LastChange scanning forward: the first Turn that made changes
FirstChange(history) ==
    IF \E i \in 1..Len(history) : MadeChanges(history[i])
    THEN CHOOSE i \in 1..Len(history) :
            /\ MadeChanges(history[i])
            /\ \A j \in 1..(i - 1) : ~MadeChanges(history[j])
    ELSE 0

\* lines 336-338: the index of the last Turn that made changes, 0 when none
LastChange(history) ==
    IF \E i \in 1..Len(history) : MadeChanges(history[i])
    THEN CHOOSE i \in 1..Len(history) :
            /\ MadeChanges(history[i])
            /\ \A j \in (i + 1)..Len(history) : ~MadeChanges(history[j])
    ELSE 0

\* undo_last_change emptying the history when it finds no change
UndoClearsOnFailure ==
    LET i == LastChange(conversation_history)
    IN  /\ IF i # 0
           THEN /\ conversation_history' = SubSeq(conversation_history, 1, i - 1)
                /\ ret' = [text |-> <<"Last change has been undone. Please refresh the graph to see the previous state.">>,
                           json |-> JNull, flag |-> TRUE, raised |-> FALSE]
           ELSE /\ conversation_history' = <<>>
                /\ ret' = [text |-> <<"No changes found to undo.">>,
                           json |-> JNull, flag |-> FALSE, raised |-> FALSE]
        /\ op' = "undo_last_change"
        /\ trace' = NoTrace
        /\ UNCHANGED <<current_json, original_text, call, shared>>

\* undo_last_change resetting the document when it removes a change
UndoResetsDocument ==
    LET i == LastChange(conversation_history)
    IN  /\ IF i # 0
           THEN /\ conversation_history' = SubSeq(conversation_history, 1, i - 1)
                /\ current_json' = EmptyDocument
                /\ ret' = [text |-> <<"Last change has been undone. Please refresh the graph to see the previous state.">>,
                           json |-> JNull, flag |-> TRUE, raised |-> FALSE]
           ELSE /\ conversation_history' = conversation_history
                /\ current_json' = current_json
                /\ ret' = [text |-> <<"No changes found to undo.">>,
                           json |-> JNull, flag |-> FALSE, raised |-> FALSE]
        /\ op' = "undo_last_change"
        /\ trace' = NoTrace
        /\ UNCHANGED <<original_text, call, shared>>

\* undo_last_change keeping the Turn it found: history[:i + 1]
UndoKeepsChange ==
    LET i == LastChange(conversation_history)
    IN  /\ IF i # 0
           THEN /\ conversation_history' = SubSeq(conversation_history, 1, i)
                /\ ret' = [text |-> <<"Last change has been undone. Please refresh the graph to see the previous state.">>,
                           json |-> JNull, flag |-> TRUE, raised |-> FALSE]
           ELSE /\ conversation_history' = conversation_history
                /\ ret' = [text |-> <<"No changes found to undo.">>,
                           json |-> JNull, flag |-> FALSE, raised |-> FALSE]
        /\ op' = "undo_last_change"
        /\ trace' = NoTrace
        /\ UNCHANGED <<current_json, original_text, call, shared>>

\* lines 332-351
undo_last_change ==
    LET i == LastChange(conversation_history)
    IN  /\ IF i # 0
           THEN /\ conversation_history' = SubSeq(conversation_history, 1, i - 1)
                /\ ret' = [text |-> <<"Last change has been undone. Please refresh the graph to see the previous state.">>,
                           json |-> JNull, flag |-> TRUE, raised |-> FALSE]
           ELSE /\ conversation_history' = conversation_history
                /\ ret' = [text |-> <<"No changes found to undo.">>,
                           json |-> JNull, flag |-> FALSE, raised |-> FALSE]
        /\ op' = "undo_last_change"
        /\ trace' = NoTrace
        /\ UNCHANGED <<current_json, original_text, call, shared>>

-----------------------------------------------------------------------------
(* The session *)

\* lines 16-22
Init ==
    /\ conversation_history = <<>>
    /\ current_json = EmptyDocument
    /\ original_text = <<>>
    /\ op = "__init__"
    /\ trace = NoTrace
    /\ ret = NoRet
    /\ call = NoCall
    /\ shared = {}
    /\ conversation_messages = <<>>

Start ==
    /\ \E initial_json \in InitialDocs, text \in SourceTexts :
          start_conversation(initial_json, text)
    /\ UNCHANGED conversation_messages

Submit ==
    /\ Len(conversation_history) <= MaxTurns
    /\ \E user_message \in UserMessages, gen \in GenerateOutcomes :
          process_user_message(user_message, gen)
    /\ UNCHANGED conversation_messages

Undo == undo_last_change /\ UNCHANGED conversation_messages

Reset == reset_conversation /\ UNCHANGED conversation_messages

Next == Start \/ Submit \/ Undo \/ Reset

Spec == Init /\ [][Next]_vars

-----------------------------------------------------------------------------
(* _validate_json_structure on its own, over candidates built from a few   *)
(* nodes and relationships, well formed or not                             *)

MaxNodes == 2

MaxRels == 1

SeqsUpTo(S_, n) == UNION {[1..m -> S_] : m \in 0..n}

NodeChoices ==
    {Alice, TechX,
     Node(S("person_alice"), "Al", "Person"),
     Node(JStr(<<>>), "Nobody", "Person"),
     Node(JList(<<>>), "Alice", "Person"),
     JDict(<<K("id"), K("type")>>, <<S("person_alice"), S("Person")>>),
     S("person_alice")}

RelChoices ==
    {Rel(S("person_alice"), S("technology_x"), "uses"),
     Rel(S("technology_x"), S("person_alice"), "used by"),
     Rel(S("person_alice"), JStr(<<>>), "knows"),
     Rel(JList(<<>>), S("person_alice"), "uses"),
     JDict(<<K("source"), K("type")>>, <<S("person_alice"), S("uses")>>),
     S("uses")}

ValidatorInputs ==
    {Document(ns, rs) : ns \in SeqsUpTo(NodeChoices, MaxNodes),
                        rs \in SeqsUpTo(RelChoices, MaxRels)}
    \cup {JNull, S("nodes"), JList(<<>>), JDict(<<>>, <<>>),
          DocNoRelationships,
          JDict(<<K("relationships")>>, <<JList(<<>>)>>),
          JDict(<<K("nodes"), K("relationships")>>, <<Alice, JList(<<>>)>>),
          JDict(<<K("nodes"), K("relationships")>>, <<JList(<<Alice>>), JNull>>)}

SessionIdle ==
    /\ conversation_history = <<>>
    /\ current_json = EmptyDocument
    /\ original_text = <<>>
    /\ op = "__init__"
    /\ trace = NoTrace
    /\ ret = NoRet
    /\ shared = {}
    /\ conversation_messages = <<>>

InitValidate ==
    /\ SessionIdle
    /\ call \in {[NoCall EXCEPT !.fn = "_validate_json_structure", !.json = d] :
                    d \in ValidatorInputs}

Validate ==
    /\ call.fn = "_validate_json_structure"
    /\ ~call.done
    /\ call' = [call EXCEPT !.done = TRUE,
                            !.valid = _validate_json_structure(call.json)]
    /\ UNCHANGED <<conversation_history, current_json, original_text,
                   op, trace, ret, shared, conversation_messages>>

SpecValidate == InitValidate /\ [][Validate]_vars

-----------------------------------------------------------------------------
(* _parse_llm_response on its own *)

\* the documents current_json holds when the response is parsed
Fallbacks == {DocAlice, DocDangling, EmptyDocument}

InitParse ==
    /\ SessionIdle
    /\ call \in {[NoCall EXCEPT !.fn = "_parse_llm_response",
                                !.text = t, !.json = d] :
                    t \in ParseTexts, d \in Fallbacks}

Parse ==
    /\ call.fn = "_parse_llm_response"
    /\ ~call.done
    /\ call' = [call EXCEPT !.done = TRUE,
                            !.out = _parse_llm_response(call.text, call.json)]
    /\ UNCHANGED <<conversation_history, current_json, original_text,
                   op, trace, ret, shared, conversation_messages>>

SpecParse == InitParse /\ [][Parse]_vars

-----------------------------------------------------------------------------
(* json.dumps followed by _parse_llm_response: a document is serialized as  *)
(* line 166 does, laid out in a response as the prompt asks, and parsed     *)

\* a node whose name holds the three backquotes of a fence
CodeFence == Node(S("code_fence"), FenceClose, "Syntax")

RoundTripNodes == {Alice, TechX, CodeFence, Node(JStr(<<>>), "Nobody", "Person")}

RoundTripRels ==
    {Rel(S("person_alice"), S("technology_x"), "uses"),
     Rel(S("technology_x"), S("code_fence"), "written in")}

RoundTripDocs ==
    {Document(ns, rs) : ns \in SeqsUpTo(RoundTripNodes, MaxNodes),
                        rs \in SeqsUpTo(RoundTripRels, MaxRels)}

InitRoundTrip ==
    /\ SessionIdle
    /\ call \in {[NoCall EXCEPT !.fn = "round_trip", !.json = d] :
                    d \in RoundTripDocs}

\* the parse starts from the empty structure of line 20 as current_json
RoundTrip ==
    /\ call.fn = "round_trip"
    /\ ~call.done
    /\ LET response == Formatted(<<"add X">>, Dumps(call.json), <<"added X">>)
       IN  call' = [call EXCEPT
                      !.done = TRUE,
                      !.text = response,
                      !.valid = _validate_json_structure(call.json),
                      !.out = _parse_llm_response(response, EmptyDocument)]
    /\ UNCHANGED <<conversation_history, current_json, original_text,
                   op, trace, ret, shared, conversation_messages>>

SpecRoundTrip == InitRoundTrip /\ [][RoundTrip]_vars

-----------------------------------------------------------------------------
(* The caller of start_conversation: the editing page of src/testy01.py     *)
(* passes its dict edited_data (line 1345) and goes on editing it.  What    *)
(* the model keeps of edited_data is the part it shares with current_json.  *)

\* the longest nodes list an edit of the caller may leave in current_json
MaxOwnedNodes == 3

\* the nodes the page adds
NewNodes == {TechX, Node(S("person_bob"), "Bob", "Person")}

\* an edit by the caller is no call of the handler
CallerEdit(name) ==
    /\ op' = name
    /\ trace' = NoTrace
    /\ ret' = NoRet
    /\ UNCHANGED <<conversation_history, original_text, call,
                   conversation_messages>>

\* testy01.py line 1136: edited_data['nodes'].append(new_node), in place on the
\* list object; the list is current_json's own when the key is shared
AddNode(new_node) ==
    LET nodes == Get(current_json, K("nodes")).l
    IN  /\ CallerEdit("Add Node")
        /\ shared' = shared
        /\ IF K("nodes") \in shared
           THEN /\ Len(nodes) < MaxOwnedNodes
                /\ current_json' = DictPut(current_json, K("nodes"),
                                           JList(Append(nodes, new_node)))
           ELSE current_json' = current_json

\* testy01.py line 1107: edited_data['relationships'].pop(selected_rel_idx),
\* in place on the list object
DeleteRelationship(selected_rel_idx) ==
    LET relationships == Get(current_json, K("relationships")).l
    IN  /\ CallerEdit("Delete Relationship")
        /\ shared' = shared
        /\ IF K("relationships") \in shared
           THEN /\ selected_rel_idx \in 1..Len(relationships)
                /\ current_json' =
                      DictPut(current_json, K("relationships"),
                              JList(SubSeq(relationships, 1, selected_rel_idx - 1)
                                    \o SubSeq(relationships, selected_rel_idx + 1,
                                              Len(relationships))))
           ELSE current_json' = current_json

\* testy01.py lines 1053-1054: both keys of edited_data are bound to new
\* lists; the lists of current_json are no longer those of edited_data
DeleteNode ==
    /\ CallerEdit("Delete Node")
    /\ shared' = shared \ {K("nodes"), K("relationships")}
    /\ current_json' = current_json

\* the first message of a conversation
FirstSubmit == conversation_history = <<>> /\ Submit

NextOwnership ==
    \/ Start
    \/ FirstSubmit
    \/ \E new_node \in NewNodes : AddNode(new_node)
    \/ \E selected_rel_idx \in 1..MaxRels : DeleteRelationship(selected_rel_idx)
    \/ DeleteNode

SpecOwnership == Init /\ [][NextOwnership]_vars

-----------------------------------------------------------------------------
(* KnowledgeGraphCreator.save_to_neo4j (src/testy01.py): a document is      *)
(* written to the graph database through the collaborator graph_builder.    *)
(* What the model keeps of the database is the calls made to it, in order.  *)

\* one call of graph_builder: create_node(type, data) returning an external
\* id, create_relationship(source, target, type, data), or clear_graph()
DbCall(fn, returned, source, target, type, data) ==
    [fn |-> fn, returned |-> returned, source |-> source, target |-> target,
     type |-> type, data |-> data]

\* what a for loop iterates: the items of a list, the keys of a dict, the
\* pieces of a string
Items(v) ==
    IF v.t = "list" THEN v.l
    ELSE IF v.t = "dict" THEN [i \in 1..Len(v.k) |-> JStr(v.k[i])]
    ELSE [i \in 1..Len(v.s) |-> JStr(<<v.s[i]>>)]

\* d.get(key, default)
GetOr(d, key, default) == IF HasKey(d, key) THEN Get(d, key) ELSE default

\* key in node_ids, node_ids[key]: node_ids holds the pairs <<id, external
\* id>> in the order they were assigned, and the last one assigned counts
InNodeIds(node_ids, key) == \E i \in 1..Len(node_ids) : node_ids[i][1] = key

NodeIdOf(node_ids, key) ==
    node_ids[CHOOSE i \in 1..Len(node_ids) :
                /\ node_ids[i][1] = key
                /\ \A j \in (i + 1)..Len(node_ids) : node_ids[j][1] # key][2]

\* lines 670-675, from the i-th node on.  create_node returns a new external
\* id (here the number of the call), or raises when i = fails_at.
RECURSIVE CreateNodes(_, _, _, _)
CreateNodes(nodes, i, fails_at, st) ==
    IF i > Len(nodes) THEN st
    ELSE LET node == nodes[i]
         IN  IF node.t # "dict" THEN [st EXCEPT !.raised = TRUE]
             ELSE LET node_id == Len(st.calls) + 1
                      called ==
                          Append(st.calls,
                                 DbCall("create_node",
                                        IF fails_at = i THEN 0 ELSE node_id,
                                        0, 0,
                                        GetOr(node, K("type"), S("Unknown")),
                                        node))
                  IN  IF fails_at = i
                      THEN [st EXCEPT !.calls = called, !.raised = TRUE]
                      ELSE IF ~HasKey(node, K("id"))
                      THEN [st EXCEPT !.calls = called, !.raised = TRUE]
                      ELSE IF ~Hashable(Get(node, K("id")))
                      THEN [st EXCEPT !.calls = called, !.raised = TRUE]
                      ELSE CreateNodes(nodes, i + 1, fails_at,
                                       [st EXCEPT
                                          !.calls = called,
                                          !.node_ids =
                                             Append(st.node_ids,
                                                    <<Get(node, K("id")),
                                                      node_id>>)])

\* CreateRelationships asking for the source only: node_ids[rel['target']]
\* raises KeyError for a target that is no node's id
RECURSIVE CreateRelationshipsSourceOnly(_, _, _)
CreateRelationshipsSourceOnly(relationships, i, st) ==
    IF i > Len(relationships) THEN st
    ELSE LET rel == relationships[i]
         IN  IF rel.t # "dict" THEN [st EXCEPT !.raised = TRUE]
             ELSE IF ~HasKey(rel, K("source")) THEN [st EXCEPT !.raised = TRUE]
             ELSE IF ~Hashable(Get(rel, K("source")))
             THEN [st EXCEPT !.raised = TRUE]
             ELSE IF ~InNodeIds(st.node_ids, Get(rel, K("source")))
             THEN CreateRelationshipsSourceOnly(relationships, i + 1, st)
             ELSE IF ~HasKey(rel, K("target")) THEN [st EXCEPT !.raised = TRUE]
             ELSE IF ~Hashable(Get(rel, K("target")))
             THEN [st EXCEPT !.raised = TRUE]
             ELSE IF ~InNodeIds(st.node_ids, Get(rel, K("target")))
             THEN [st EXCEPT !.raised = TRUE]
             ELSE CreateRelationshipsSourceOnly(relationships, i + 1,
                     [st EXCEPT !.calls =
                         Append(st.calls,
                                DbCall("create_relationship", 0,
                                       NodeIdOf(st.node_ids, Get(rel, K("source"))),
                                       NodeIdOf(st.node_ids, Get(rel, K("target"))),
                                       GetOr(rel, K("type"), S("RELATED")),
                                       GetOr(rel, K("properties"),
                                             JDict(<<>>, <<>>))))])

\* lines 678-685, from the i-th relationship on: rel['source'] raises for a
\* rel that is no dict or has no such key, "in node_ids" raises for an
\* unhashable key, and "and" does not look at the target when the source is
\* not in node_ids
RECURSIVE CreateRelationships(_, _, _)
CreateRelationships(relationships, i, st) ==
    IF i > Len(relationships) THEN st
    ELSE LET rel == relationships[i]
         IN  IF rel.t # "dict" THEN [st EXCEPT !.raised = TRUE]
             ELSE IF ~HasKey(rel, K("source")) THEN [st EXCEPT !.raised = TRUE]
             ELSE IF ~Hashable(Get(rel, K("source")))
             THEN [st EXCEPT !.raised = TRUE]
             ELSE IF ~InNodeIds(st.node_ids, Get(rel, K("source")))
             THEN CreateRelationships(relationships, i + 1, st)
             ELSE IF ~HasKey(rel, K("target")) THEN [st EXCEPT !.raised = TRUE]
             ELSE IF ~Hashable(Get(rel, K("target")))
             THEN [st EXCEPT !.raised = TRUE]
             ELSE IF ~InNodeIds(st.node_ids, Get(rel, K("target")))
             THEN CreateRelationships(relationships, i + 1, st)
             ELSE CreateRelationships(relationships, i + 1,
                     [st EXCEPT !.calls =
                         Append(st.calls,
                                DbCall("create_relationship", 0,
                                       NodeIdOf(st.node_ids, Get(rel, K("source"))),
                                       NodeIdOf(st.node_ids, Get(rel, K("target"))),
                                       GetOr(rel, K("type"), S("RELATED")),
                                       GetOr(rel, K("properties"),
                                             JDict(<<>>, <<>>))))])

\* lines 661-691: the calls made to graph_builder and the value returned.
\* Any exception ends the save where it is and makes it return False.
save_to_neo4j(graph_data, clear_existing, fails_at) ==
    LET cleared == [calls |-> IF clear_existing
                              THEN <<DbCall("clear_graph", 0, 0, 0, JNull, JNull)>>
                              ELSE <<>>,
                    node_ids |-> <<>>,
                    raised |-> FALSE]
        nodes == GetOr(graph_data, K("nodes"), JList(<<>>))
        relationships == GetOr(graph_data, K("relationships"), JList(<<>>))
        with_nodes ==
            IF graph_data.t # "dict" \/ nodes.t = "null"
            THEN [cleared EXCEPT !.raised = TRUE]
            ELSE CreateNodes(Items(nodes), 1, fails_at, cleared)
        with_relationships ==
            IF with_nodes.raised THEN with_nodes
            ELSE IF relationships.t = "null"
            THEN [with_nodes EXCEPT !.raised = TRUE]
            ELSE CreateRelationships(Items(relationships), 1, with_nodes)
    IN  [calls |-> with_relationships.calls,
         returned |-> ~with_relationships.raised]

\* the nodes and relationships of the documents saved: ids that repeat, a
\* node without type, without id, with an unhashable id; relationships that
\* resolve, that dangle, without type, with properties, without source
SavedNodes ==
    {Alice, TechX,
     Node(S("person_alice"), "Al", "Person"),
     JDict(<<K("id"), K("name")>>, <<S("technology_x"), S("X")>>),
     JDict(<<K("name"), K("type")>>, <<S("Alice"), S("Person")>>),
     Node(JList(<<>>), "Alice", "Person")}

SavedRels ==
    {Rel(S("person_alice"), S("technology_x"), "uses"),
     Rel(S("technology_x"), S("ghost"), "haunts"),
     JDict(<<K("source"), K("target")>>, <<S("person_alice"), S("person_alice")>>),
     JDict(<<K("source"), K("target"), K("type"), K("properties")>>,
           <<S("technology_x"), S("person_alice"), S("used by"),
             JDict(<<K("since")>>, <<S("2020")>>)>>),
     JDict(<<K("target"), K("type")>>, <<S("person_alice"), S("uses")>>)}

SavedDocs ==
    {Document(ns, rs) : ns \in SeqsUpTo(SavedNodes, MaxNodes),
                        rs \in SeqsUpTo(SavedRels, MaxRels)}
    \cup {JNull, JDict(<<>>, <<>>), DocNoRelationships}

InitSave ==
    /\ SessionIdle
    /\ call \in {[fn |-> "save_to_neo4j", done |-> FALSE, text |-> <<>>,
                  json |-> d, valid |-> FALSE, out |-> <<>>,
                  clear_existing |-> c, fails_at |-> f] :
                    d \in SavedDocs, c \in BOOLEAN, f \in 0..MaxNodes}

\* valid is what save_to_neo4j returned, out the calls it made
Save ==
    /\ call.fn = "save_to_neo4j"
    /\ ~call.done
    /\ LET saved == save_to_neo4j(call.json, call.clear_existing, call.fails_at)
       IN  call' = [call EXCEPT !.done = TRUE,
                                !.valid = saved.returned,
                                !.out = saved.calls]
    /\ UNCHANGED <<conversation_history, current_json, original_text,
                   op, trace, ret, shared, conversation_messages>>

SpecSave == InitSave /\ [][Save]_vars

-----------------------------------------------------------------------------
(* The JSON editor of the editing page (src/testy01.py): Apply Changes      *)
(* parses the text of the editor and makes it the edited graph.             *)

\* key in v, for a v that is no dict: an item of a list, a piece of a string
Contains(v, key) ==
    IF v.t = "dict" THEN HasKey(v, key)
    ELSE IF v.t = "list" THEN \E i \in 1..Len(v.l) : v.l[i] = JStr(key)
    ELSE \E i \in 1..Len(v.s) : <<v.s[i]>> = key

\* lines 1292-1311: the edited graph after the button, whether the text was
\* applied, and the message shown.  "in" raises TypeError for None, which the
\* handler of line 1310 reports.
ApplyChanges(json_content, edited_graph_data) ==
    LET loaded == Loads(json_content)
        parsed_json == loaded.val
    IN  IF ~loaded.ok
        THEN [edited_graph_data |-> edited_graph_data, applied |-> FALSE,
              message |-> "JSON Syntax Error"]
        ELSE IF parsed_json.t = "null"
        THEN [edited_graph_data |-> edited_graph_data, applied |-> FALSE,
              message |-> "Error applying changes"]
        ELSE IF ~Contains(parsed_json, K("nodes"))
                \/ ~Contains(parsed_json, K("relationships"))
        THEN [edited_graph_data |-> edited_graph_data, applied |-> FALSE,
              message |-> "JSON must contain 'nodes' and 'relationships' arrays"]
        ELSE [edited_graph_data |-> parsed_json, applied |-> TRUE,
              message |-> "Changes applied!"]

\* what the user types in the editor: documents with ids that repeat and
\* relationships that dangle, and texts that are no document
EditedNodes == {Alice, TechX, Node(S("person_alice"), "Al", "Person")}

EditedRels ==
    {Rel(S("person_alice"), S("technology_x"), "uses"),
     Rel(S("person_alice"), S("ghost"), "haunts")}

EditorTexts ==
    {Dumps(Document(ns, rs)) : ns \in SeqsUpTo(EditedNodes, MaxNodes),
                               rs \in SeqsUpTo(EditedRels, MaxRels)}
    \cup {Dumps(DocNoRelationships), Dumps(JList(<<S("nodes"), S("relationships")>>)),
          <<"{">>, <<>>, <<"null">>}

\* json is the edited graph when the button is pressed, text the content of
\* the editor
InitApply ==
    /\ SessionIdle
    /\ call \in {[NoCall EXCEPT !.fn = "Apply Changes", !.text = t, !.json = d] :
                    t \in EditorTexts, d \in {DocAlice, DocUses}}

\* valid is whether the text was applied, out the edited graph afterwards
Apply ==
    /\ call.fn = "Apply Changes"
    /\ ~call.done
    /\ LET applied == ApplyChanges(call.text, call.json)
       IN  call' = [call EXCEPT !.done = TRUE,
                                !.valid = applied.applied,
                                !.out = applied.edited_graph_data]
    /\ UNCHANGED <<conversation_history, current_json, original_text,
                   op, trace, ret, shared, conversation_messages>>

SpecApply == InitApply /\ [][Apply]_vars

-----------------------------------------------------------------------------
(* The chat page (src/testy01.py): it keeps its own list of the messages    *)
(* it displays, conversation_messages, next to the handler's history.       *)

ChatMessage(role, content) == [role |-> role, content |-> content]

\* lines 1460-1463: the messages before the last assistant message, all of
\* them when there is none
BeforeLastAssistant(messages) ==
    IF \E i \in 1..Len(messages) : messages[i].role = "assistant"
    THEN LET i == CHOOSE k \in 1..Len(messages) :
                     /\ messages[k].role = "assistant"
                     /\ \A j \in (k + 1)..Len(messages) :
                           messages[j].role # "assistant"
         IN  SubSeq(messages, 1, i - 1)
    ELSE messages

\* lines 1339-1346 and 1358-1359: the page makes the handler and starts the
\* conversation on the edited graph
OpenChat ==
    /\ op = "__init__"
    /\ \E edited_data \in InitialDocs, text \in SourceTexts :
          start_conversation(edited_data, text)
    /\ conversation_messages' = <<>>

\* lines 1403-1440: the user message is displayed, the handler is called and
\* what it returns is displayed as the assistant's message; an exception out
\* of the handler is displayed as one too (lines 1432-1437)
SendMessage ==
    /\ op # "__init__"
    /\ Len(conversation_history) <= MaxTurns
    /\ Len(conversation_messages) <= MaxTurns
    /\ \E user_input \in UserMessages, gen \in GenerateOutcomes :
          /\ process_user_message(user_input, gen)
          /\ conversation_messages' =
                conversation_messages
                \o <<ChatMessage("user", user_input),
                     ChatMessage("assistant",
                                 IF ret'.raised
                                 THEN <<"I encountered an error: ">> \o ret'.text
                                 ELSE ret'.text)>>

\* lines 1442-1449: the display is emptied and the conversation started
\* again on the edited graph, which is the graph the handler returned last
\* (line 1425) or the one the conversation was opened on
ClearChat ==
    /\ op # "__init__"
    /\ start_conversation(current_json, original_text)
    /\ conversation_messages' = <<>>

\* lines 1451-1468
UndoLast ==
    /\ op # "__init__"
    /\ undo_last_change
    /\ conversation_messages' =
          IF ret'.flag THEN BeforeLastAssistant(conversation_messages)
          ELSE conversation_messages

NextChat == OpenChat \/ SendMessage \/ ClearChat \/ UndoLast

SpecChat == Init /\ [][NextChat]_vars

-----------------------------------------------------------------------------
(* Properties *)

Last(history) == history[Len(history)]

\* a step of process_user_message
SubmitStep == op' = "process_user_message"

\* the ids of the nodes of d
NodeIdsOf(d) ==
    {Get(Get(d, K("nodes")).l[i], K("id")) : i \in 1..Len(Get(d, K("nodes")).l)}

\* every relationship of d has its source and its target among the ids of
\* d's nodes
NoDanglingReference(d) ==
    \A i \in 1..Len(Get(d, K("relationships")).l) :
        LET rel == Get(d, K("relationships")).l[i]
        IN  /\ Get(rel, K("source")) \in NodeIdsOf(d)
            /\ Get(rel, K("target")) \in NodeIdsOf(d)

\* no node of d has the empty id, and no two nodes of d have the same id
UniqueNonEmptyIds(d) ==
    LET nodes == Get(d, K("nodes")).l
    IN  /\ \A i \in 1..Len(nodes) : Get(nodes[i], K("id")) # JStr(<<>>)
        /\ \A i, j \in 1..Len(nodes) :
              i # j => Get(nodes[i], K("id")) # Get(nodes[j], K("id"))

\* the text has a fenced block whose content is a JSON value
FencedBlockLoads(text) ==
    \E a, b \in 1..Len(text) :
        /\ a < b
        /\ text[a] = FenceOpen
        /\ text[b] \in Fences
        /\ \A m \in (a + 1)..(b - 1) : text[m] \notin Fences
        /\ Loads(SubSeq(text, a + 1, b - 1)).ok

\* some brace span of the text is a JSON value
BraceSpanLoads(text) ==
    \E a, b \in 1..Len(text) :
        /\ a < b
        /\ text[a] = "{"
        /\ text[b] = "}"
        /\ Loads(SubSeq(text, a, b)).ok

\* ParseFailure: no document can be read from the text
NoParseableDocument(text) == ~FencedBlockLoads(text) /\ ~BraceSpanLoads(text)

\* the candidate process_user_message extracted in the step (updated_json of
\* line 113)
CandidateOfStep == trace'.updated_json

\* the step appended a user Turn and then an assistant Turn to the history
AppendedUserAndAssistant ==
    /\ Len(conversation_history') = Len(conversation_history) + 2
    /\ SubSeq(conversation_history', 1, Len(conversation_history))
          = conversation_history
    /\ conversation_history'[Len(conversation_history) + 1].role = "user"
    /\ conversation_history'[Len(conversation_history) + 2].role = "assistant"

\* C1: every call of process_user_message appends exactly one user Turn and
\* exactly one assistant Turn to the history, whatever the outcome.
C1_OneUserOneAssistantTurn == [][SubmitStep => AppendedUserAndAssistant]_vars

\* C2: whenever process_user_message replaces the live document (it returns
\* is_valid = True), every relationship of the document it installed has its
\* source and its target among the ids of that document's nodes.
C2_NoDanglingCommitted ==
    op = "process_user_message" /\ ret.flag
        => /\ ret.json = current_json
           /\ NoDanglingReference(current_json)

C2_Witness ==
    /\ op = "process_user_message"
    /\ ret.flag
    /\ current_json = DocUses
    /\ trace.prompt.current_json_str = Dumps(DocAlice)

\* C3: when no document can be parsed from the generated text, the call is
\* rejected: is_valid = False, the live document unchanged, and the appended
\* assistant Turn carries "error" and no "changes".
C3_ParseFailureRejected ==
    [][SubmitStep /\ trace'.generate = "returned"
         /\ NoParseableDocument(trace'.response)
       => /\ ~ret'.flag
          /\ current_json' = current_json
          /\ Last(conversation_history').role = "assistant"
          /\ "error" \in Last(conversation_history').keys
          /\ "changes" \notin Last(conversation_history').keys]_vars

\* C4: when generate raises, no exception reaches the caller, is_valid = False
\* is returned, the live document is the one before the call (and is the one
\* returned), and neither _parse_llm_response nor _validate_json_structure is
\* called.
C4_GenerateFailureHandled ==
    [][SubmitStep /\ trace'.generate = "raised"
       => /\ ~ret'.raised
          /\ ~ret'.flag
          /\ current_json' = current_json
          /\ ret'.json = current_json
          /\ Range(trace'.calls) = {"generate"}]_vars

C4_Witness ==
    /\ op = "process_user_message"
    /\ trace.generate = "raised"
    /\ current_json = DocUses

\* C5: when generate raises, an assistant Turn carrying the error description
\* is appended, so the last Turn of the history is that assistant Turn.
C5_GenerateFailureTurn ==
    [][SubmitStep /\ trace'.generate = "raised"
       => /\ Last(conversation_history').role = "assistant"
          /\ Last(conversation_history').content = ret'.text]_vars

\* C6: when the extracted candidate fails validation, the live document is
\* unchanged, the document returned is that unchanged document, is_valid =
\* False, and the appended assistant Turn carries "error" and no "changes".
C6_InvalidCandidateRejected ==
    [][LET candidate == CandidateOfStep
       IN  SubmitStep /\ trace'.generate = "returned"
             /\ ~_validate_json_structure(candidate)
           => /\ current_json' = current_json
              /\ ret'.json = current_json
              /\ ~ret'.flag
              /\ AppendedUserAndAssistant
              /\ "error" \in Last(conversation_history').keys
              /\ "changes" \notin Last(conversation_history').keys]_vars

C6_Witness ==
    /\ op = "process_user_message"
    /\ trace.response = Formatted(<<"add X">>, Dumps(DocDangling), <<"added X">>)
    /\ current_json = DocAlice
    /\ ~ret.flag
    /\ "error" \in Last(conversation_history).keys

\* C7: when the extracted candidate passes validation, the live document
\* becomes exactly the candidate, the document returned is that document,
\* is_valid = True, and the appended assistant Turn carries "changes" and no
\* "error".
C7_ValidCandidateCommitted ==
    [][LET candidate == CandidateOfStep
       IN  SubmitStep /\ trace'.generate = "returned"
             /\ _validate_json_structure(candidate)
           => /\ current_json' = candidate
              /\ ret'.json = candidate
              /\ ret'.flag
              /\ AppendedUserAndAssistant
              /\ "changes" \in Last(conversation_history').keys
              /\ "error" \notin Last(conversation_history').keys]_vars

C7_Witness ==
    /\ op = "process_user_message"
    /\ trace.response = Formatted(<<"add X">>, Dumps(DocUses), <<"added X">>)
    /\ trace.prompt.current_json_str = Dumps(DocAlice)
    /\ current_json = DocUses
    /\ ret.flag
    /\ "changes" \in Last(conversation_history).keys

\* C8: every candidate for which _validate_json_structure returns True has
\* the source and the target of every relationship among the ids of its nodes.
C8_ValidHasNoDangling ==
    call.fn = "_validate_json_structure" /\ call.done /\ call.valid
        => NoDanglingReference(call.json)

C8_Witness ==
    /\ call.fn = "_validate_json_structure"
    /\ call.done
    /\ call.valid
    /\ Len(Get(call.json, K("nodes")).l) = 2
    /\ Len(Get(call.json, K("relationships")).l) = 1

\* C9: no document committed by process_user_message has two nodes with the
\* same id or a node whose id is empty.
C9_CommittedIdsUniqueNonEmpty ==
    op = "process_user_message" /\ ret.flag => UniqueNonEmptyIds(current_json)

\* C10: _parse_llm_response never raises, and whenever no document can be
\* parsed from the text the candidate it returns is current_json unchanged.
C10_ParseTotalFallback ==
    call.fn = "_parse_llm_response" /\ call.done
        => /\ ~call.out.raised
           /\ NoParseableDocument(call.text) => call.out.json = call.json

C10_Witness ==
    /\ call.fn = "_parse_llm_response"
    /\ call.done
    /\ NoParseableDocument(call.text)
    /\ FindFrom(call.text, {FenceOpen}, 1) # 0
    /\ "{" \in Range(call.text)
    /\ call.json = DocAlice
    /\ call.out.json = DocAlice

\* the literal change summaries that report a parse failure (lines 241, 244)
ParseFailureSummaries == {<<"Failed to parse JSON">>, <<"Error parsing response">>}

\* C11: whenever no document can be parsed from the text, by the fenced block
\* or by a brace span, _parse_llm_response returns the raw text verbatim as the
\* explanation, current_json unchanged as the candidate, and a literal change
\* summary that reports the parse failure.
C11_GiveUpTriple ==
    call.fn = "_parse_llm_response" /\ call.done
      /\ NoParseableDocument(call.text)
        => /\ call.out.explanation = call.text
           /\ call.out.json = call.json
           /\ call.out.changes \in ParseFailureSummaries

\* the text has a closed fenced block whose content is not a JSON value
FencedBlockFails(text) ==
    \E a, b \in 1..Len(text) :
        /\ a < b
        /\ text[a] = FenceOpen
        /\ \A m \in 1..(a - 1) : text[m] # FenceOpen
        /\ text[b] \in Fences
        /\ \A m \in (a + 1)..(b - 1) : text[m] \notin Fences
        /\ ~Loads(SubSeq(text, a + 1, b - 1)).ok

\* the documents the brace spans of the text parse to
BraceSpanDocuments(text) ==
    {Loads(SubSeq(text, a, b)).val :
        <<a, b>> \in {<<a, b>> \in (1..Len(text)) \X (1..Len(text)) :
                        /\ a < b
                        /\ text[a] = "{"
                        /\ text[b] = "}"
                        /\ Loads(SubSeq(text, a, b)).ok}}

\* C12: when a fenced block is present but its content does not parse, the
\* scan over the whole text still runs, so a parseable brace span elsewhere
\* in the text becomes the candidate.
C12_ScanAfterFailedFence ==
    call.fn = "_parse_llm_response" /\ call.done
      /\ FencedBlockFails(call.text)
      /\ BraceSpanDocuments(call.text) # {}
        => call.out.json \in BraceSpanDocuments(call.text)

\* a step of undo_last_change
UndoStep == op' = "undo_last_change"

\* an assistant Turn that carries a change summary
HasChangesSummary(turn) == turn.role = "assistant" /\ "changes" \in turn.keys

\* C13: when the history holds an assistant Turn with a change summary,
\* undo_last_change removes the most recent such Turn and every Turn after
\* it, leaves the Turns before it as they were, and reports success.
C13_UndoTruncates ==
    [][UndoStep
         /\ (\E i \in 1..Len(conversation_history) :
                HasChangesSummary(conversation_history[i]))
       => /\ ret'.flag
          /\ \E i \in 1..Len(conversation_history) :
                /\ HasChangesSummary(conversation_history[i])
                /\ \A j \in (i + 1)..Len(conversation_history) :
                      ~HasChangesSummary(conversation_history[j])
                /\ conversation_history'
                      = SubSeq(conversation_history, 1, i - 1)]_vars

C13_Witness ==
    /\ op = "undo_last_change"
    /\ ret.flag
    /\ Len(conversation_history) = 3
    /\ HasChangesSummary(conversation_history[2])

\* C14: when the history holds no assistant Turn with a change summary (the
\* empty history included), undo_last_change reports failure and leaves the
\* history as it was.
C14_UndoNothingToUndo ==
    [][UndoStep
         /\ (\A i \in 1..Len(conversation_history) :
                ~HasChangesSummary(conversation_history[i]))
       => /\ ~ret'.flag
          /\ conversation_history' = conversation_history]_vars

C14_Witness ==
    /\ op = "undo_last_change"
    /\ ~ret.flag
    /\ Len(conversation_history) >= 2
    /\ "error" \in Last(conversation_history).keys

C16_ChangesOnlyOnAcceptedChange ==
    [][SubmitStep /\ HasChangesSummary(Last(conversation_history'))
       => /\ ~NoParseableDocument(trace'.response)
          /\ _validate_json_structure(CandidateOfStep)
          /\ current_json' = CandidateOfStep]_vars

\* C17: for every valid document d, serializing d, placing the text between
\* the fence delimiters of a well-formed response and parsing the response
\* gives a candidate equal to d.
C17_RoundTrip ==
    call.fn = "round_trip" /\ call.done /\ call.valid
        => call.out.json = call.json

\* the call returned in Applied: the candidate is the live document and its
\* Turn is in the history
Applied ==
    /\ ret'.flag
    /\ current_json' = CandidateOfStep
    /\ HasChangesSummary(Last(conversation_history'))

\* the call returned in Rejected: the live document is the one before the call
Rejected ==
    /\ ~ret'.flag
    /\ current_json' = current_json

\* C18: the session has no terminal state.  Every call of
\* process_user_message, whether generate returned or raised, ends in Applied
\* or in Rejected and returns to its caller; and in every state the session
\* reaches, after any accepted, rejected or failed turns and undos, another
\* call of process_user_message is possible (for the histories of the model,
\* of at most MaxTurns Turns before the call).
C18_NoTerminalState ==
    /\ [][SubmitStep => ~ret'.raised /\ (Applied \/ Rejected)]_vars
    /\ [](Len(conversation_history) <= MaxTurns => ENABLED Submit)

\* a call that was accepted after a rejected one, with the history at the
\* longest a call may start from
C18_Witness ==
    /\ op = "process_user_message"
    /\ ret.flag
    /\ Len(conversation_history) = MaxTurns
    /\ \E i \in 1..Len(conversation_history) :
          "error" \in conversation_history[i].keys
    /\ ENABLED Submit

\* a Turn as a line of the conversation window
RoleLabelled(turn) ==
    <<IF turn.role = "user" THEN "User: " ELSE "Assistant: ">> \o turn.content

\* C19: the conversation window of the prompt process_user_message builds
\* holds the last 4 Turns of the history as it is when the prompt is built
\* (the Turns before the call and the user Turn just appended), all of them
\* when there are fewer than 4, oldest first, each with its role label; no
\* older Turn is in the window.
C19_WindowLastFour ==
    [][SubmitStep
       => LET n == Len(conversation_history) + 1
              hist == SubSeq(conversation_history', 1, n)
              w == IF n < 4 THEN n ELSE 4
              window == trace'.prompt.context
          IN  /\ Len(window) = w
              /\ \A k \in 1..w : window[k] = RoleLabelled(hist[n - w + k])]_vars

\* a call whose history was longer than the window
C19_Witness ==
    /\ op = "process_user_message"
    /\ Len(conversation_history) >= 5
    /\ Len(trace.prompt.context) = 4
    /\ trace.prompt.context[4] = RoleLabelled(UserTurn(trace.prompt.user_message))

\* an edit the caller makes in place to the dict it passed to
\* start_conversation
CallerEditStep == op' \in {"Add Node", "Delete Relationship", "Delete Node"}

\* C20: the session alone owns its live document: after
\* start_conversation(initial_json, original_text), a change the caller makes
\* in place to the object it passed in does not change current_json.
C20_LiveDocumentOwned == [][CallerEditStep => current_json' = current_json]_vars

\* d is a mapping with the keys in required
MappingWith(d, required) ==
    d.t = "dict" /\ \A key \in required : \E i \in 1..Len(d.k) : d.k[i] = key

\* d is a mapping with a sequence under key, every item of which is a
\* mapping with the keys in required
SequenceOfMappings(d, key, required) ==
    /\ MappingWith(d, {key})
    /\ Get(d, key).t = "list"
    /\ \A i \in 1..Len(Get(d, key).l) : MappingWith(Get(d, key).l[i], required)

\* the candidate meets every requirement on its shape
MeetsShape(d) ==
    /\ SequenceOfMappings(d, K("nodes"), {K("id"), K("name"), K("type")})
    /\ SequenceOfMappings(d, K("relationships"),
                          {K("source"), K("target"), K("type")})

\* every node id of d is a value a Python set can hold (a string or null
\* here), not a list or a mapping
IdsHashable(d) == \A id \in NodeIdsOf(d) : id.t \in {"null", "str"}

\* C22 as stated: _validate_json_structure returns True exactly for the
\* candidates that meet every requirement on their shape and have every
\* relationship endpoint in the set of their node ids.
C22_ValidatorExact ==
    call.fn = "_validate_json_structure" /\ call.done
        => (call.valid <=> MeetsShape(call.json) /\ NoDanglingReference(call.json))

\* C22: _validate_json_structure returns False for every candidate that fails
\* a requirement on its shape, or has a relationship endpoint outside its node
\* ids, or has a node id that cannot be a member of a set; it returns True for
\* every other candidate.
C22_ValidatorExactOnHashableIds ==
    call.fn = "_validate_json_structure" /\ call.done
        => (call.valid <=> /\ MeetsShape(call.json)
                           /\ IdsHashable(call.json)
                           /\ NoDanglingReference(call.json))

\* a candidate rejected for its second node alone
C22_Witness ==
    /\ call.fn = "_validate_json_structure"
    /\ call.done
    /\ ~call.valid
    /\ MappingWith(call.json, {K("nodes"), K("relationships")})
    /\ Get(call.json, K("relationships")).l = <<>>
    /\ Get(call.json, K("nodes")).t = "list"
    /\ Len(Get(call.json, K("nodes")).l) = 2
    /\ Get(call.json, K("nodes")).l[1] = Alice
    /\ ~MappingWith(Get(call.json, K("nodes")).l[2], {K("name")})

\* the number of tokens tok among text[a..b]
CountIn(text, tok, a, b) == Cardinality({i \in a..b : text[i] = tok})

\* text[a..b] opens at a and has as many "}" as "{"
Balances(text, a, b) ==
    text[a] = "{" /\ CountIn(text, "{", a, b) = CountIn(text, "}", a, b)

\* the first top-level balanced brace span of the text: from the first "{" to
\* the "}" that balances it; <<>> when there is none
FirstBalancedSpan(text) ==
    IF \E a \in 1..Len(text) : \E b \in a..Len(text) :
          /\ \A i \in 1..(a - 1) : text[i] # "{"
          /\ Balances(text, a, b)
    THEN LET a == CHOOSE i \in 1..Len(text) :
                    text[i] = "{" /\ \A j \in 1..(i - 1) : text[j] # "{"
             b == CHOOSE i \in a..Len(text) :
                    Balances(text, a, i)
                    /\ \A j \in a..(i - 1) : ~Balances(text, a, j)
         IN  SubSeq(text, a, b)
    ELSE <<>>

\* C23: when there is no fenced block, the text _parse_llm_response tries to
\* parse is the first top-level balanced brace span of the response, from the
\* first "{" to the "}" that balances it, whatever follows it: when that span
\* is a JSON value, the value is the candidate.
C23_ScanFirstBalancedSpan ==
    call.fn = "_parse_llm_response" /\ call.done
      /\ FindFrom(call.text, {FenceOpen}, 1) = 0
      /\ FirstBalancedSpan(call.text) # <<>>
      /\ Loads(FirstBalancedSpan(call.text)).ok
        => call.out.json = Loads(FirstBalancedSpan(call.text)).val


\* d is a document the Validator accepts
PassesValidator(d) == MeetsShape(d) /\ IdsHashable(d) /\ NoDanglingReference(d)

\* C25: a step of process_user_message, undo_last_change or
\* reset_conversation taken with a valid live document leaves a valid live
\* document, so a session started with a valid document never holds an
\* invalid one; start_conversation installs the document it is given,
\* whether valid or not.
C25_ValidityPreserved ==
    /\ [][op' \in {"process_user_message", "undo_last_change",
                   "reset_conversation"}
            /\ PassesValidator(current_json)
          => PassesValidator(current_json')]_vars
    /\ [][op' = "start_conversation" => current_json' \in InitialDocs]_vars

\* two accepted changes in one session: the second was made on a valid
\* live document
C25_Witness ==
    /\ op = "process_user_message"
    /\ ret.flag
    /\ Len(conversation_history) >= 4
    /\ HasChangesSummary(conversation_history[2])
    /\ HasChangesSummary(conversation_history[4])
    /\ PassesValidator(current_json)

\* C26: the history strictly alternates roles, beginning with a user Turn:
\* no two consecutive Turns have the same role.
C26_StrictAlternation ==
    /\ conversation_history # <<>> => conversation_history[1].role = "user"
    /\ \A i \in 1..(Len(conversation_history) - 1) :
          conversation_history[i].role # conversation_history[i + 1].role

\* C27: the first Turn of a non-empty history is a user Turn and every
\* assistant Turn is immediately preceded by a user Turn; a successful
\* undo_last_change leaves a history that is empty or ends with a user Turn.
C27_AssistantFollowsUser ==
    /\ [](/\ conversation_history # <<>>
              => conversation_history[1].role = "user"
          /\ \A i \in 1..Len(conversation_history) :
                conversation_history[i].role = "assistant"
                  => i > 1 /\ conversation_history[i - 1].role = "user")
    /\ [][UndoStep /\ ret'.flag
          => \/ conversation_history' = <<>>
             \/ Last(conversation_history').role = "user"]_vars

\* a successful undo that left Turns, the last of which is a user Turn that
\* an assistant Turn answered before the undo
C27_Witness ==
    /\ op = "undo_last_change"
    /\ ret.flag
    /\ Len(conversation_history) >= 3
    /\ conversation_history[2].role = "assistant"
    /\ Last(conversation_history).role = "user"

\* C28: a successful undo_last_change strictly shortens the history; it
\* fails exactly when the history holds no Turn with a change summary, and
\* then leaves the history as it is.  A run of consecutive undos therefore
\* has at most as many successful calls as the history has Turns.
C28_UndoShortens ==
    [][UndoStep
       => /\ ret'.flag => Len(conversation_history') < Len(conversation_history)
          /\ ~ret'.flag <=> \A i \in 1..Len(conversation_history) :
                               ~HasChangesSummary(conversation_history[i])
          /\ ~ret'.flag => conversation_history' = conversation_history]_vars

\* a successful undo that removed the last Turn of the history only
C28_Witness ==
    /\ op = "undo_last_change"
    /\ ret.flag
    /\ Len(conversation_history) >= 3
    /\ HasChangesSummary(conversation_history[2])

\* C29: the user Turn of the call is in the history when the prompt is
\* built: the conversation window ends with the message being submitted,
\* which is also the new request of the prompt, and holds at most 3 Turns
\* from before the call, the last ones.
C29_WindowEndsWithRequest ==
    [][SubmitStep
       => LET window == trace'.prompt.context
              before == Len(window) - 1
              n == Len(conversation_history)
          IN  /\ conversation_history'[n + 1].role = "user"
              /\ trace'.prompt.user_message = conversation_history'[n + 1].content
              /\ window # <<>>
              /\ Last(window) = RoleLabelled(conversation_history'[n + 1])
              /\ before <= 3
              /\ before <= n
              /\ \A k \in 1..before :
                    window[k] = RoleLabelled(conversation_history[n - before + k])]_vars

\* a call made with exactly 3 Turns in the history: the window holds them
\* and the message of the call
C29_Witness ==
    /\ op = "process_user_message"
    /\ Len(conversation_history) = 5
    /\ Len(trace.prompt.context) = 4
    /\ trace.prompt.context[1] = RoleLabelled(conversation_history[1])
    /\ trace.prompt.context[4] = RoleLabelled(conversation_history[4])
    /\ conversation_history[4].content = trace.prompt.user_message


\* the nodes and the relationships of a saved document
SavedNodesOf(d) == IF MappingWith(d, {K("nodes")}) THEN Items(Get(d, K("nodes"))) ELSE <<>>

SavedRelsOf(d) ==
    IF MappingWith(d, {K("relationships")})
    THEN Items(Get(d, K("relationships")))
    ELSE <<>>

\* the relationship has a source and a target, both strings
EndpointsAreIds(rel) ==
    /\ MappingWith(rel, {K("source"), K("target")})
    /\ Get(rel, K("source")).t = "str"
    /\ Get(rel, K("target")).t = "str"

\* the relationship's source and target are both ids of nodes of d
Resolves(rel, d) ==
    /\ EndpointsAreIds(rel)
    /\ \E i \in 1..Len(SavedNodesOf(d)) :
          /\ MappingWith(SavedNodesOf(d)[i], {K("id")})
          /\ Get(SavedNodesOf(d)[i], K("id")) = Get(rel, K("source"))
    /\ \E i \in 1..Len(SavedNodesOf(d)) :
          /\ MappingWith(SavedNodesOf(d)[i], {K("id")})
          /\ Get(SavedNodesOf(d)[i], K("id")) = Get(rel, K("target"))

\* the calls of out that are calls of fn, as indices
CallsOf(out, fn) == {j \in 1..Len(out) : out[j].fn = fn}

\* C21: when save_to_neo4j has run, every create_relationship call comes
\* after a create_node call for every node of the document, and its two ends
\* are external ids that create_node returned for nodes carrying the source
\* and the target of a relationship of the document; there are no more such
\* calls than relationships that resolve.  When the document is a mapping,
\* every node is saved and every relationship has a source and a target,
\* the save returns True and
\* makes one create_relationship call per relationship that resolves:
\* those that do not resolve are skipped without error.
C21_RelationshipsAfterNodes ==
    call.fn = "save_to_neo4j" /\ call.done
      => LET d == call.json
             created == CallsOf(call.out, "create_node")
             related == CallsOf(call.out, "create_relationship")
             resolving == {i \in 1..Len(SavedRelsOf(d)) :
                              Resolves(SavedRelsOf(d)[i], d)}
         IN  /\ \A j \in related :
                   /\ \A i \in 1..Len(SavedNodesOf(d)) :
                         \E c \in created :
                            c < j /\ call.out[c].data = SavedNodesOf(d)[i]
                   /\ Cardinality({c \in created : c < j}) = Len(SavedNodesOf(d))
                   /\ \E i \in resolving :
                         LET rel == SavedRelsOf(d)[i]
                         IN  /\ \E c \in created :
                                   /\ call.out[c].returned = call.out[j].source
                                   /\ call.out[c].returned # 0
                                   /\ Get(call.out[c].data, K("id")) = Get(rel, K("source"))
                             /\ \E c \in created :
                                   /\ call.out[c].returned = call.out[j].target
                                   /\ call.out[c].returned # 0
                                   /\ Get(call.out[c].data, K("id")) = Get(rel, K("target"))
             /\ Cardinality(related) <= Cardinality(resolving)
             /\ (/\ d.t = "dict"
                 /\ Cardinality(created) = Len(SavedNodesOf(d))
                 /\ \A c \in created : call.out[c].returned # 0
                 /\ \A c \in created :
                       /\ MappingWith(call.out[c].data, {K("id")})
                       /\ Get(call.out[c].data, K("id")).t = "str"
                 /\ \A i \in 1..Len(SavedRelsOf(d)) :
                       EndpointsAreIds(SavedRelsOf(d)[i]))
                  => /\ call.valid
                     /\ Cardinality(related) = Cardinality(resolving)

\* a saved document of two nodes whose one relationship has a target that
\* is no node's id: both nodes were created, no relationship, no error
C21_Witness ==
    /\ call.fn = "save_to_neo4j"
    /\ call.done
    /\ call.valid
    /\ Len(SavedNodesOf(call.json)) = 2
    /\ Len(SavedRelsOf(call.json)) = 1
    /\ EndpointsAreIds(SavedRelsOf(call.json)[1])
    /\ ~Resolves(SavedRelsOf(call.json)[1], call.json)
    /\ Cardinality(CallsOf(call.out, "create_node")) = 2
    /\ CallsOf(call.out, "create_relationship") = {}


\* no two nodes of d have the same id
UniqueIds(d) ==
    LET nodes == Get(d, K("nodes")).l
    IN  \A i, j \in 1..Len(nodes) :
           i # j => Get(nodes[i], K("id")) # Get(nodes[j], K("id"))

\* C24: Apply Changes makes the text of the editor the edited graph only
\* when it is a document whose node ids are unique and whose relationships
\* have their source and target among the node ids; otherwise the edited
\* graph stays as it was.
C24_ApplyOnlyConsistent ==
    call.fn = "Apply Changes" /\ call.done
      => /\ call.valid => /\ MeetsShape(call.out)
                          /\ UniqueIds(call.out)
                          /\ NoDanglingReference(call.out)
         /\ ~call.valid => call.out = call.json


\* C30: the messages the chat page displays and the Turns of the handler's
\* history are as many, with the same roles in the same order.
C30_DisplayMatchesHistory ==
    /\ Len(conversation_messages) = Len(conversation_history)
    /\ \A i \in 1..Len(conversation_messages) :
          i <= Len(conversation_history)
            => conversation_messages[i].role = conversation_history[i].role

====
